---- MODULE Spec2Model ----
(***************************************************************************)
(* A model of butler's wharf operations (sign, verify, diff, apply) and of *)
(* the cp command's retry loop.                                            *)
(*                                                                         *)
(* Files are byte sequences, a directory tree is a function from a small   *)
(* set of paths to files, and every operation is a step machine whose      *)
(* steps are the statements of the Go function that can fail or write.     *)
(***************************************************************************)
EXTENDS Integers, Sequences, FiniteSets, TLC

VARIABLES
    disk,    \* [Roots -> Tree]: the directory trees on disk
    files,   \* [FileNames -> stream]: signature and recipe files on disk
    pc,      \* position of the running command
    loc,     \* local variables of the running command
    log,     \* the write calls sign has issued, in order
    exit,    \* how the process ended: [status, why, at]
    ghost,   \* history: what was signed, how the tree was edited, faults
    cp,      \* state of the cp command (Do / Try)
    fc       \* state of FetchCollection: locals, database, notifications

vars == <<disk, files, pc, loc, log, exit, ghost, cp, fc>>

----------------------------------------------------------------------------
(* Bounds of the model *)

\* size of a block, in bytes (64 KiB in the engine, scaled down)
BlockSize == 2
\* regular files of a directory that is signed
MaxFiles == 1

\* longest file: one full block and a short trailing block more than one block
MaxFileLen == BlockSize + 1

Byte == {0, 1}

----------------------------------------------------------------------------
(* Files and trees *)

RECURSIVE SeqsUpTo(_, _)
SeqsUpTo(S, n) ==
    IF n = 0 THEN {<<>>}
    ELSE LET shorter == SeqsUpTo(S, n - 1)
         IN  shorter \cup {Append(s, x) : s \in {t \in shorter : Len(t) = n - 1}, x \in S}

Contents == SeqsUpTo(Byte, MaxFileLen)

Absent == [exists |-> FALSE, data |-> <<>>]
File(d) == [exists |-> TRUE, data |-> d]

\* Path 0 is the one entry of the version-control directory ".git"; paths
\* 1..MaxFiles are regular entries. Lexical order is the order of the numbers.
Paths == 0 .. MaxFiles
PathSeq == [k \in 1 .. MaxFiles + 1 |-> k - 1]
VcsPath == 0

\* the name of the top-level directory entry a path lives under, as tokens
EntryName(p) == IF p = VcsPath THEN <<".git">> ELSE <<"data">>

EmptyTree == [p \in Paths |-> Absent]

Roots == {"dir", "old", "new", "tmp", "out", "."}
FileNames == {"sig", "patch", "patch.sig"}

NoFile == [exists |-> FALSE, frames |-> <<>>]

----------------------------------------------------------------------------
(* filterDirs and the container walker *)

ignoredDirs == << <<".git">>, <<".cvs">>, <<".svn">> >>

HasPrefix(name, prefix) ==
    /\ Len(prefix) <= Len(name)
    /\ SubSeq(name, 1, Len(prefix)) = prefix

filterDirs(name) ==
    ~ \E k \in 1 .. Len(ignoredDirs) : HasPrefix(name, ignoredDirs[k])

EntryNames == {EntryName(p) : p \in Paths}

\* the filter diff passes to the walker
dirFilter == [name \in EntryNames |-> filterDirs(name)]

\* sign passes a nil filter: everything is walked
nilFilter == [name \in EntryNames |-> TRUE]

\* A container: the walked files in order, each with its path and size.
Walk(tree, filter) ==
    LET kept == SelectSeq(PathSeq, LAMBDA p : tree[p].exists /\ filter[EntryName(p)])
    IN  [k \in 1 .. Len(kept) |-> [path |-> kept[k], size |-> Len(tree[kept[k]].data)]]

RECURSIVE ContainerSize(_)
ContainerSize(c) == IF c = <<>> THEN 0 ELSE Head(c).size + ContainerSize(Tail(c))

----------------------------------------------------------------------------
(* Block hasher *)

RECURSIVE Blocks(_)
Blocks(data) ==
    IF Len(data) = 0 THEN <<>>
    ELSE IF Len(data) <= BlockSize THEN <<data>>
    ELSE <<SubSeq(data, 1, BlockSize)>> \o Blocks(SubSeq(data, BlockSize + 1, Len(data)))

RECURSIVE SumA(_)
SumA(buf) == IF buf = <<>> THEN 0 ELSE Head(buf) + SumA(Tail(buf))

\* sum of (n - i) * buf[i], i counted from 0: the head weighs Len(buf)
RECURSIVE SumB(_)
SumB(buf) == IF buf = <<>> THEN 0 ELSE Len(buf) * Head(buf) + SumB(Tail(buf))

WeakHash(buf) == (SumB(buf) % 65536) * 65536 + (SumA(buf) % 65536)

\* A collision-free digest: the block read as a numeral with digits 1 and 2.
RECURSIVE StrongHash(_)
StrongHash(buf) == IF buf = <<>> THEN 0 ELSE (Head(buf) + 1) + 3 * StrongHash(Tail(buf))

BlockHash(buf) == [weak |-> WeakHash(buf), strong |-> StrongHash(buf)]

HashesOf(data) == LET bs == Blocks(data) IN [k \in 1 .. Len(bs) |-> BlockHash(bs[k])]

\* Hash the files the container names, as they are on disk now; a file of the
\* container that is not on disk is an error.
RECURSIVE ComputeSignature(_, _)
ComputeSignature(container, tree) ==
    IF container = <<>> THEN [err |-> FALSE, hashes |-> <<>>]
    ELSE LET f == Head(container)
             rest == ComputeSignature(Tail(container), tree)
         IN  IF ~ tree[f.path].exists \/ rest.err
             THEN [err |-> TRUE, hashes |-> <<>>]
             ELSE [err |-> FALSE, hashes |-> HashesOf(tree[f.path].data) \o rest.hashes]

----------------------------------------------------------------------------
(* Wire format of a signature file *)

Frame(kind, c, h) == [kind |-> kind, c |-> c, h |-> h]
NoHash == [weak |-> 0, strong |-> 0]
MagicFrame == Frame("sigmagic", <<>>, NoHash)
HeaderFrame == Frame("header", <<>>, NoHash)
ContainerFrame(c) == Frame("container", c, NoHash)
HashFrame(h) == Frame("hash", <<>>, h)

SignatureFrames(c, hs) ==
    <<MagicFrame, HeaderFrame, ContainerFrame(c)>> \o [k \in 1 .. Len(hs) |-> HashFrame(hs[k])]

ReadSignature(f) ==
    LET fr == f.frames
        ok == /\ f.exists
              /\ Len(fr) >= 3
              /\ fr[1] = MagicFrame
              /\ fr[2] = HeaderFrame
              /\ fr[3].kind = "container"
              /\ \A k \in 4 .. Len(fr) : fr[k].kind = "hash"
    IN  IF ok
        THEN [err |-> FALSE, container |-> fr[3].c,
              hashes |-> [k \in 1 .. Len(fr) - 3 |-> fr[k + 3].h]]
        ELSE [err |-> TRUE, container |-> <<>>, hashes |-> <<>>]

----------------------------------------------------------------------------
(* Process state *)

Running == [status |-> "running", why |-> "", at |-> 0]

loc0 ==
    [container |-> <<>>, pending |-> <<>>,
     vsig |-> "sig", vout |-> "dir", vret |-> "done",
     refContainer |-> <<>>, refHashes |-> <<>>, hashes |-> <<>>, i |-> 0,
     target |-> "old", verify |-> FALSE,
     targetContainer |-> <<>>, targetSignature |-> <<>>, sourceContainer |-> <<>>,
     ReusedBytes |-> 0, FreshBytes |-> 0,
     arecipe |-> "patch", atarget |-> "old", aout |-> "out", aret |-> "none"]

ghost0 ==
    [signed |-> EmptyTree, edit |-> [kind |-> "none", path |-> 0, off |-> 0],
     swallowed |-> {}, faults |-> {}, compared |-> {},
     old0 |-> EmptyTree, new0 |-> EmptyTree, targetReads |-> 0, events |-> <<>>]

\* comm.Die: log the message and end the process with a failure status
Die(why, at) ==
    /\ pc' = "died"
    /\ exit' = [status |-> "died", why |-> why, at |-> at]

\* must(err) with a non-nil error
must(why) == Die(why, 0)

Fault(step) == ghost' = [ghost EXCEPT !.faults = @ \cup {step}]

----------------------------------------------------------------------------
(* sign(output, signature) *)

WriteLog(op, via, ok, h) == [op |-> op, via |-> via, ok |-> ok, h |-> h]

AppendFrame(name, fr) == [files EXCEPT ![name].frames = Append(@, fr)]

\* container, err := tlc.Walk(output, nil); must(err)
SignWalk ==
    /\ pc = "sign_walk"
    /\ \/ /\ pc' = "sign_create"
          /\ loc' = [loc EXCEPT !.container = Walk(disk["dir"], nilFilter)]
          /\ ghost' = [ghost EXCEPT !.signed = disk["dir"]]
          /\ UNCHANGED exit
       \/ /\ must("walk")
          /\ Fault("walk")
          /\ UNCHANGED loc
    /\ UNCHANGED <<disk, files, log, cp, fc>>

\* signatureWriter, err := os.Create(signature); must(err)
SignCreate ==
    /\ pc = "sign_create"
    /\ \/ /\ pc' = "sign_magic"
          /\ files' = [files EXCEPT !["sig"] = [exists |-> TRUE, frames |-> <<>>]]
          /\ UNCHANGED <<exit, ghost>>
       \/ /\ must("create")
          /\ Fault("create")
          /\ UNCHANGED files
    /\ UNCHANGED <<disk, loc, log, cp, fc>>

\* A write whose error result is dropped: the next statement runs either way.
UncheckedWrite(step, next, via, fr) ==
    /\ pc = step
    /\ pc' = next
    /\ \/ /\ files' = AppendFrame("sig", fr)
          /\ log' = Append(log, WriteLog(fr.kind, via, TRUE, fr.h))
          /\ UNCHANGED ghost
       \/ /\ log' = Append(log, WriteLog(fr.kind, via, FALSE, fr.h))
          /\ ghost' = [ghost EXCEPT !.swallowed = @ \cup {fr.kind},
                                    !.faults = @ \cup {fr.kind}]
          /\ UNCHANGED files
    /\ UNCHANGED <<disk, loc, exit, cp, fc>>

\* rawSigWire.WriteMagic(pwr.SignatureMagic)
SignWriteMagic ==
    /\ UncheckedWrite("sign_magic", "sign_header", "raw", MagicFrame)

\* the header sent through the compressed wire instead of the raw one
SignWriteHeaderCompressed ==
    /\ UncheckedWrite("sign_header", "sign_compress", "compressed", HeaderFrame)

\* rawSigWire.WriteMessage(&pwr.SignatureHeader{...})
SignWriteHeader ==
    /\ UncheckedWrite("sign_header", "sign_compress", "raw", HeaderFrame)

\* sigWire, err := pwr.CompressWire(rawSigWire, compression); must(err)
SignCompressWire ==
    /\ pc = "sign_compress"
    /\ \/ /\ pc' = "sign_container"
          /\ UNCHANGED <<exit, ghost>>
       \/ /\ must("compress")
          /\ Fault("compress")
    /\ UNCHANGED <<disk, files, loc, log, cp, fc>>

\* sigWire.WriteMessage(container)
SignWriteContainer ==
    /\ UncheckedWrite("sign_container", "sign_hashes", "compressed",
                      ContainerFrame(loc.container))

\* pwr.ComputeSignatureToWriter starts: the hasher reads the files in
\* container order; err from reading goes to must
SignStartHashes ==
    /\ pc = "sign_hashes"
    /\ LET sig == ComputeSignature(loc.container, disk["dir"])
       IN  \/ /\ ~ sig.err
              /\ pc' = "sign_hash"
              /\ loc' = [loc EXCEPT !.pending = sig.hashes]
              /\ UNCHANGED <<exit, ghost>>
           \/ /\ must("hash")
              /\ Fault("read")
              /\ UNCHANGED loc
    /\ UNCHANGED <<disk, files, log, cp, fc>>

\* the callback with the StrongHash field of the message left unset
SignWriteHashNoStrong ==
    /\ pc = "sign_hash"
    /\ loc.pending # <<>>
    /\ files' = AppendFrame("sig", HashFrame([Head(loc.pending) EXCEPT !.strong = 0]))
    /\ log' = Append(log, WriteLog("hash", "compressed", TRUE, Head(loc.pending)))
    /\ loc' = [loc EXCEPT !.pending = Tail(@)]
    /\ UNCHANGED <<pc, exit, ghost, disk, cp, fc>>

\* the callback: return sigWire.WriteMessage(&pwr.BlockHash{...}), whose error
\* ComputeSignatureToWriter returns and must receives
SignWriteHash ==
    /\ pc = "sign_hash"
    /\ loc.pending # <<>>
    /\ \/ /\ files' = AppendFrame("sig", HashFrame(Head(loc.pending)))
          /\ log' = Append(log, WriteLog("hash", "compressed", TRUE, Head(loc.pending)))
          /\ loc' = [loc EXCEPT !.pending = Tail(@)]
          /\ UNCHANGED <<pc, exit, ghost>>
       \/ /\ must("hash")
          /\ log' = Append(log, WriteLog("hash", "compressed", FALSE, Head(loc.pending)))
          /\ Fault("hash")
          /\ UNCHANGED <<files, loc>>
    /\ UNCHANGED <<disk, cp, fc>>

\* must(sigWire.Close()), then the function returns
SignClose ==
    /\ pc = "sign_hash"
    /\ loc.pending = <<>>
    /\ \/ /\ pc' = "signed"
          /\ log' = Append(log, WriteLog("close", "compressed", TRUE, NoHash))
          /\ exit' = [status |-> "ok", why |-> "", at |-> 0]
          /\ UNCHANGED ghost
       \/ /\ must("close")
          /\ log' = Append(log, WriteLog("close", "compressed", FALSE, NoHash))
          /\ Fault("close")
    /\ UNCHANGED <<disk, files, loc, cp, fc>>

Sign ==
    \/ SignWalk
    \/ SignCreate
    \/ SignWriteMagic
    \/ SignWriteHeader
    \/ SignCompressWire
    \/ SignWriteContainer
    \/ SignStartHashes
    \/ SignWriteHash
    \/ SignClose

----------------------------------------------------------------------------
(* verify(signature, output) *)

\* signatureReader, err := os.Open(signature); must(err)
VerifyOpen ==
    /\ pc = "verify_open"
    /\ \/ /\ files[loc.vsig].exists
          /\ pc' = "verify_read"
          /\ UNCHANGED <<exit, ghost>>
       \/ /\ must("open")
          /\ Fault("open")
    /\ UNCHANGED <<disk, files, loc, log, cp, fc>>

\* refContainer, refHashes, err := pwr.ReadSignature(signatureReader); must(err)
VerifyRead ==
    /\ pc = "verify_read"
    /\ LET sig == ReadSignature(files[loc.vsig])
       IN  \/ /\ ~ sig.err
              /\ pc' = "verify_compute"
              /\ loc' = [loc EXCEPT !.refContainer = sig.container,
                                    !.refHashes = sig.hashes]
              /\ UNCHANGED <<exit, ghost>>
           \/ /\ sig.err
              /\ must("read")
              /\ UNCHANGED <<loc, ghost>>
           \/ /\ must("read")
              /\ Fault("read")
              /\ UNCHANGED loc
    /\ UNCHANGED <<disk, files, log, cp, fc>>

\* hashes, err := pwr.ComputeSignature(refContainer, output, ...); must(err)
VerifyCompute ==
    /\ pc = "verify_compute"
    /\ LET sig == ComputeSignature(loc.refContainer, disk[loc.vout])
       IN  \/ /\ ~ sig.err
              /\ pc' = "verify_len"
              /\ loc' = [loc EXCEPT !.hashes = sig.hashes]
              /\ UNCHANGED <<exit, ghost>>
           \/ /\ sig.err
              /\ must("compute")
              /\ UNCHANGED <<loc, ghost>>
           \/ /\ must("compute")
              /\ Fault("compute")
              /\ UNCHANGED loc
    /\ UNCHANGED <<disk, files, log, cp, fc>>

\* the length test left out
VerifyLenUnchecked ==
    /\ pc = "verify_len"
    /\ pc' = "verify_loop"
    /\ loc' = [loc EXCEPT !.i = 0]
    /\ UNCHANGED <<exit, disk, files, log, ghost, cp, fc>>

\* if len(hashes) != len(refHashes) { must(fmt.Errorf("Expected %d blocks, got %d.")) }
VerifyLen ==
    /\ pc = "verify_len"
    /\ IF Len(loc.hashes) # Len(loc.refHashes)
       THEN /\ must("length")
            /\ UNCHANGED loc
       ELSE /\ pc' = "verify_loop"
            /\ loc' = [loc EXCEPT !.i = 0]
            /\ UNCHANGED exit
    /\ UNCHANGED <<disk, files, log, ghost, cp, fc>>

\* the loop body with the strong-hash comparison left out
VerifyCompareWeakOnly ==
    /\ pc = "verify_loop"
    /\ loc.i < Len(loc.refHashes)
    /\ ghost' = [ghost EXCEPT !.compared = @ \cup {loc.i}]
    /\ IF loc.i >= Len(loc.hashes)
       THEN /\ Die("panic", loc.i)
            /\ UNCHANGED loc
       ELSE IF loc.refHashes[loc.i + 1].weak # loc.hashes[loc.i + 1].weak
       THEN /\ Die("weak", loc.i)
            /\ UNCHANGED loc
       ELSE /\ loc' = [loc EXCEPT !.i = @ + 1]
            /\ UNCHANGED <<pc, exit>>
    /\ UNCHANGED <<disk, files, log, cp, fc>>

\* one iteration of: for i, refHash := range refHashes { hash := hashes[i]; ... }
\* i counts from 0 as in the code. hashes[i] past the end of hashes is a
\* runtime panic (index out of range).
VerifyCompare ==
    /\ pc = "verify_loop"
    /\ loc.i < Len(loc.refHashes)
    /\ ghost' = [ghost EXCEPT !.compared = @ \cup {loc.i}]
    /\ IF loc.i >= Len(loc.hashes)
       THEN /\ Die("panic", loc.i)
            /\ UNCHANGED loc
       ELSE LET refHash == loc.refHashes[loc.i + 1]
                hash == loc.hashes[loc.i + 1]
            IN  IF refHash.weak # hash.weak
                THEN /\ Die("weak", loc.i)
                     /\ UNCHANGED loc
                ELSE IF refHash.strong # hash.strong
                THEN /\ Die("strong", loc.i)
                     /\ UNCHANGED loc
                ELSE /\ loc' = [loc EXCEPT !.i = @ + 1]
                     /\ UNCHANGED <<pc, exit>>
    /\ UNCHANGED <<disk, files, log, cp, fc>>

\* the range loop is over: log "Verified ..." and return
VerifyReturn ==
    /\ pc = "verify_loop"
    /\ loc.i >= Len(loc.refHashes)
    /\ pc' = loc.vret
    /\ exit' = [status |-> IF loc.vret = "done" THEN "ok" ELSE exit.status,
                why |-> "verified", at |-> 0]
    /\ UNCHANGED <<disk, files, loc, log, ghost, cp, fc>>

Verify ==
    \/ VerifyOpen
    \/ VerifyRead
    \/ VerifyCompute
    \/ VerifyLen
    \/ VerifyCompare
    \/ VerifyReturn

----------------------------------------------------------------------------
(* The sign / verify scenario: a directory is signed, may then be edited,  *)
(* and is verified against the signature.                                  *)

\* the shell runs `butler verify sig dir` after `butler sign dir sig` ended well
StartVerify ==
    /\ pc = "signed"
    /\ pc' = "verify_open"
    /\ exit' = Running
    /\ loc' = [loc EXCEPT !.vsig = "sig", !.vout = "dir", !.vret = "done"]
    /\ UNCHANGED <<disk, files, log, ghost, cp, fc>>

Edited(kind, p, off, data) ==
    /\ disk' = [disk EXCEPT !["dir"][p] = IF kind = "remove" THEN Absent ELSE File(data)]
    /\ ghost' = [ghost EXCEPT !.edit = [kind |-> kind, path |-> p, off |-> off]]

\* Somebody edits the signed directory before verify re-hashes it (at most one
\* edit: one byte of one file changed, one file rewritten, or one file removed).
\* The steps of verify before the re-hash do not read the directory, so the
\* edit is placed right before the re-hash.
Tamper ==
    /\ pc = "verify_compute"
    /\ loc.vout = "dir"
    /\ ghost.edit.kind = "none"
    /\ \E p \in Paths :
         /\ disk["dir"][p].exists
         /\ LET old == disk["dir"][p].data
            IN  \/ \E off \in 1 .. Len(old), b \in Byte :
                     /\ b # old[off]
                     /\ Edited("byte", p, off - 1, [old EXCEPT ![off] = b])
                \/ \E d \in Contents :
                     /\ d # old
                     /\ Edited("rewrite", p, 0, d)
                \/ Edited("remove", p, 0, <<>>)
    /\ UNCHANGED <<files, pc, loc, log, exit, cp, fc>>

cp0 == [ret |-> "none"]
\* no FetchCollection request is running
fc0 == [ret |-> "none"]

SignableTrees ==
    {[p \in Paths |-> IF p = VcsPath THEN Absent ELSE t[p]] :
        t \in [Paths -> {Absent} \cup {File(d) : d \in Contents}]}

InitSig ==
    /\ disk \in {[r \in Roots |-> IF r = "dir" THEN t ELSE EmptyTree] : t \in SignableTrees}
    /\ files = [n \in FileNames |-> NoFile]
    /\ pc = "sign_walk"
    /\ loc = loc0
    /\ log = <<>>
    /\ exit = Running
    /\ ghost = ghost0
    /\ cp = cp0
    /\ fc = fc0

NextSig ==
    \/ Sign
    \/ StartVerify
    \/ Tamper
    \/ Verify

SpecSig == InitSig /\ [][NextSig]_vars

----------------------------------------------------------------------------
(* Properties of verify and sign *)

\* verify ran its comparison stage and ended (well, or at a comparison)
Compared == exit.why \in {"length", "weak", "strong", "panic", "verified"}

\* indices (from 0) at which the recorded and the recomputed hash differ
Differing(ref, hs) ==
    {j \in 0 .. Len(ref) - 1 : j < Len(hs) /\ ref[j + 1] # hs[j + 1]}

Least(S) == CHOOSE j \in S : \A k \in S : j <= k

\* C1: verify compares the two hash lists element by element in increasing
\* block order; with lists of equal length it aborts at the smallest block
\* index whose weak or strong hash differs (weak tested first), and it reports
\* success only if no block differs.
C1_FirstMismatch ==
    LET ref == loc.refHashes
        hs == loc.hashes
        diff == Differing(ref, hs)
    IN  /\ pc = "verify_loop" =>
            /\ ghost.compared = 0 .. loc.i - 1
            /\ \A j \in 0 .. loc.i - 1 : ref[j + 1] = hs[j + 1]
        /\ exit.why \in {"weak", "strong"} =>
            /\ Len(ref) = Len(hs)
            /\ diff # {}
            /\ exit.at = Least(diff)
            /\ ghost.compared = 0 .. exit.at
            /\ (exit.why = "weak") = (ref[exit.at + 1].weak # hs[exit.at + 1].weak)
        /\ exit.why = "verified" => ref = hs

\* a run that aborted at a block that is not the last differing one
C1_Witness ==
    /\ pc = "died"
    /\ exit.why \in {"weak", "strong"}
    /\ \E j \in Differing(loc.refHashes, loc.hashes) : j > exit.at

\* C2: verify fails whenever the number of recomputed block hashes differs
\* from the number recorded, and then the element-wise comparison is never
\* reached: no element of either list is read.
C2_LengthMismatch ==
    /\ pc = "verify_loop" => Len(loc.hashes) = Len(loc.refHashes)
    /\ Compared =>
         ((Len(loc.hashes) # Len(loc.refHashes)) = (exit.why = "length"))
    /\ exit.why = "length" => (pc = "died" /\ ghost.compared = {})
    /\ exit.why # "panic"

\* a run where fewer hashes were recomputed than recorded
C2_Witness ==
    /\ pc = "died"
    /\ exit.why = "length"
    /\ Len(loc.hashes) < Len(loc.refHashes)

NumBlocks(size) == (size + BlockSize - 1) \div BlockSize

\* index, in the flat list of block hashes, of the block holding byte off of
\* the file at path p
RECURSIVE BlockIndexOf(_, _, _)
BlockIndexOf(container, p, off) ==
    IF Head(container).path = p THEN off \div BlockSize
    ELSE NumBlocks(Head(container).size) + BlockIndexOf(Tail(container), p, off)

\* the two commands ran to their end with no I/O step failing
Finished == pc \in {"done", "died"} /\ ghost.faults = {}

\* C3: with no I/O failure, verify(sign(D), D) succeeds when D is unchanged,
\* and when one byte of one file of D was changed in between, verify fails
\* with a hash mismatch at the index of the block that holds that byte.
C3_SignatureRoundTrip ==
    Finished =>
        /\ ghost.edit.kind = "none" => (pc = "done" /\ exit.status = "ok")
        /\ ghost.edit.kind = "byte" =>
             /\ pc = "died"
             /\ exit.why \in {"weak", "strong"}
             /\ exit.at = BlockIndexOf(Walk(ghost.signed, nilFilter),
                                       ghost.edit.path, ghost.edit.off)

\* a byte of the second block was changed and verify stopped there
C3_Witness ==
    /\ Finished
    /\ ghost.edit.kind = "byte"
    /\ ghost.edit.off >= BlockSize
    /\ exit.at >= 1

IsPrefix(s, t) == Len(s) <= Len(t) /\ s = SubSeq(t, 1, Len(s))

Call(op, via, h) == [op |-> op, via |-> via, h |-> h]

\* the write calls sign is to issue for a tree, in order
SignOrder(tree) ==
    LET c == Walk(tree, nilFilter)
        hs == ComputeSignature(c, tree).hashes
    IN  <<Call("sigmagic", "raw", NoHash), Call("header", "raw", NoHash),
          Call("container", "compressed", NoHash)>>
        \o [k \in 1 .. Len(hs) |-> Call("hash", "compressed", hs[k])]
        \o <<Call("close", "compressed", NoHash)>>

\* C8: sign writes, in this order: the magic and one header on the raw
\* stream, then through the compressor the container, one block hash per block
\* in the hasher's order, and the close; whatever was written so far is a
\* prefix of that sequence, and the file holds the writes that succeeded.
C8_SignOrder ==
    LET calls == [k \in 1 .. Len(log) |-> Call(log[k].op, log[k].via, log[k].h)]
        done == SelectSeq(log, LAMBDA w : w.ok /\ w.op # "close")
    IN  /\ IsPrefix(calls, SignOrder(ghost.signed))
        /\ Len(files["sig"].frames) = Len(done)
        /\ \A k \in 1 .. Len(done) :
             /\ files["sig"].frames[k].kind = done[k].op
             /\ files["sig"].frames[k].h = done[k].h

\* sign ended well after writing at least two block hashes
C8_Witness ==
    /\ pc = "signed"
    /\ Len(log) >= 6
    /\ log[Len(log)].op = "close"

\* C9: no error is swallowed: an operation never reports success after one
\* of its reads or writes failed.
C9_NoErrorSwallowed == exit.status = "ok" => ghost.faults = {}

----------------------------------------------------------------------------
(* cp: Do and Try *)

\* retryCtx.Settings.MaxTries = 2
MaxTries == 2
\* longest source of a copy
MaxSrcLen == 2

\* retrycontext.Context.ShouldTry: tries made so far are fewer than MaxTries
ShouldTry(rc) == rc.tries < rc.maxTries

\* retrycontext.Context.Retry: count the try (after a back-off sleep)
Retry(rc) == [rc EXCEPT !.tries = @ + 1]

Max(a, b) == IF a >= b THEN a ELSE b

\* Try without the "Existing data too big ... starting over" branch
TryCopyNoRestart(srcLen, statSize, destLen, resumeArg) ==
    LET totalBytes == IF statSize = 0 THEN -1 ELSE statSize
        resume == resumeArg /\ totalBytes # -1
        seekEnd == destLen
        startOffset == IF ~ resume THEN 0
                       ELSE seekEnd
        allThere == resume /\ seekEnd # 0 /\ seekEnd <= totalBytes /\ seekEnd = totalBytes
        \* src.Seek(startOffset, io.SeekStart) on the resume path only
        srcOffset == IF resume /\ ~ allThere THEN startOffset ELSE 0
        \* where dest.Seek left the write position; 0 on a handle never sought
        destOffset == IF resume THEN startOffset ELSE 0
        copied == IF allThere THEN 0 ELSE Max(srcLen - srcOffset, 0)
        written == IF allThere THEN destLen ELSE Max(destLen, destOffset + copied)
        final == IF allThere THEN destLen
                 ELSE IF totalBytes > 0 THEN totalBytes ELSE written
    IN  [startOffset |-> startOffset, copied |-> copied, destLen |-> final,
         skipped |-> allThere, srcOffset |-> srcOffset, destOffset |-> destOffset]

\* Try(ctx, params, srcPath, destPath, resume) on a source of srcLen bytes whose
\* Stat reports statSize, a destination of destLen bytes (0 when it is created
\* by the open), as far as the copy: the start offset, the bytes copied and the
\* destination's length when the inner function returns nil.
TryCopy(srcLen, statSize, destLen, resumeArg) ==
    LET totalBytes == IF statSize = 0 THEN -1 ELSE statSize
        resume == resumeArg /\ totalBytes # -1
        seekEnd == destLen
        startOffset == IF ~ resume THEN 0
                       ELSE IF seekEnd > totalBytes THEN 0
                       ELSE seekEnd
        allThere == resume /\ seekEnd # 0 /\ seekEnd <= totalBytes /\ seekEnd = totalBytes
        \* src.Seek(startOffset, io.SeekStart) on the resume path only
        srcOffset == IF resume /\ ~ allThere THEN startOffset ELSE 0
        \* where dest.Seek left the write position; 0 on a handle never sought
        destOffset == IF resume THEN startOffset ELSE 0
        copied == IF allThere THEN 0 ELSE Max(srcLen - srcOffset, 0)
        written == IF allThere THEN destLen ELSE Max(destLen, destOffset + copied)
        final == IF allThere THEN destLen
                 ELSE IF totalBytes > 0 THEN totalBytes ELSE written
    IN  [startOffset |-> startOffset, copied |-> copied, destLen |-> final,
         skipped |-> allThere, srcOffset |-> srcOffset, destOffset |-> destOffset]

\* the loop test letting one more try through
CpLoopOneMore ==
    /\ pc = "cp_loop"
    /\ IF cp.rc.tries <= cp.rc.maxTries
       THEN /\ pc' = "cp_try"
            /\ UNCHANGED <<cp, fc>>
       ELSE /\ pc' = "cp_done"
            /\ cp' = [cp EXCEPT !.ret = "giveup"]
    /\ UNCHANGED <<disk, files, loc, log, exit, ghost, fc>>

\* for retryCtx.ShouldTry() { ... }; return errors.New("cp: too many errors, giving up")
CpLoop ==
    /\ pc = "cp_loop"
    /\ IF ShouldTry(cp.rc)
       THEN /\ pc' = "cp_try"
            /\ UNCHANGED <<cp, fc>>
       ELSE /\ pc' = "cp_done"
            /\ cp' = [cp EXCEPT !.ret = "giveup"]
    /\ UNCHANGED <<disk, files, loc, log, exit, ghost, fc>>

\* err := Try(...): one attempt. Opening the source or the destination, the
\* stat, the seeks, the copy or the truncation may fail with an ordinary
\* error; an HTTP source with a header has its integrity checked, and a failed
\* check truncates the destination to 0 and returns an integrity error.
CpTry ==
    /\ pc = "cp_try"
    /\ pc' = "cp_check"
    /\ LET t == TryCopy(cp.srcLen, cp.statSize, cp.destLen, cp.resume)
       IN  \/ cp' = [cp EXCEPT !.err = "nil", !.destLen = t.destLen,
                               !.startOffset = t.startOffset, !.copied = t.copied,
                               !.srcOffset = t.srcOffset, !.destOffset = t.destOffset,
                               !.before = cp.destLen,
                               !.outcomes = Append(@, "nil")]
           \/ /\ cp.http
              /\ cp' = [cp EXCEPT !.err = "integrity", !.destLen = 0,
                                  !.startOffset = t.startOffset, !.copied = t.copied,
                                  !.srcOffset = t.srcOffset, !.destOffset = t.destOffset,
                                  !.before = cp.destLen,
                                  !.outcomes = Append(@, "integrity")]
           \/ cp' = [cp EXCEPT !.err = "other", !.before = cp.destLen,
                               !.outcomes = Append(@, "other")]
    /\ UNCHANGED <<disk, files, loc, log, exit, ghost, fc>>

\* Do retrying after every error, whatever its kind
CpCheckRetryAny ==
    /\ pc = "cp_check"
    /\ IF cp.err # "nil"
       THEN /\ pc' = "cp_loop"
            /\ cp' = [cp EXCEPT !.rc = Retry(@)]
       ELSE /\ pc' = "cp_done"
            /\ cp' = [cp EXCEPT !.ret = cp.err]
    /\ UNCHANGED <<disk, files, loc, log, exit, ghost, fc>>

\* if err != nil { if dl.IsIntegrityError(err) { retryCtx.Retry(...); continue }
\*                 return err }; return nil
CpCheck ==
    /\ pc = "cp_check"
    /\ IF cp.err = "integrity"
       THEN /\ pc' = "cp_loop"
            /\ cp' = [cp EXCEPT !.rc = Retry(@)]
       ELSE /\ pc' = "cp_done"
            /\ cp' = [cp EXCEPT !.ret = cp.err]
    /\ UNCHANGED <<disk, files, loc, log, exit, ghost, fc>>

InitCp ==
    /\ disk = [r \in Roots |-> EmptyTree]
    /\ files = [n \in FileNames |-> NoFile]
    /\ pc = "cp_loop"
    /\ loc = loc0
    /\ log = <<>>
    /\ exit = Running
    /\ ghost = ghost0
    /\ fc = fc0
    /\ \E srcLen \in 0 .. MaxSrcLen, known \in BOOLEAN, destLen \in 0 .. MaxSrcLen + 1,
          resume \in BOOLEAN, http \in BOOLEAN :
         cp = [rc |-> [tries |-> 0, maxTries |-> MaxTries],
               srcLen |-> srcLen, statSize |-> IF known THEN srcLen ELSE 0,
               destLen |-> destLen, resume |-> resume, http |-> http,
               err |-> "none", ret |-> "none", startOffset |-> 0, copied |-> 0,
               srcOffset |-> 0, destOffset |-> 0, before |-> destLen,
               outcomes |-> <<>>]

NextCp ==
    \/ CpLoop
    \/ CpTry
    \/ CpCheck

SpecCp == InitCp /\ [][NextCp]_vars

\* C6 as stated: after a first failing attempt up to two further attempts run,
\* so Do gives up only after MaxTries + 1 attempts that all failed the
\* integrity check.
C6_Original ==
    (pc = "cp_done" /\ cp.ret = "giveup") => Len(cp.outcomes) = MaxTries + 1

\* C6 amended: Do makes at most MaxTries = 2 attempts in all, that is one
\* retry, every attempt but the last ended in an integrity error, and Do
\* returns "cp: too many errors, giving up" exactly when both attempts failed
\* the integrity check.
C6_RetryTwice ==
    /\ Len(cp.outcomes) <= MaxTries
    /\ \A k \in 1 .. Len(cp.outcomes) - 1 : cp.outcomes[k] = "integrity"
    /\ pc = "cp_done" =>
         ((cp.ret = "giveup") =
            (Len(cp.outcomes) = MaxTries
             /\ \A k \in 1 .. MaxTries : cp.outcomes[k] = "integrity"))

\* Do gave up after a retry
C6_Witness ==
    /\ pc = "cp_done"
    /\ cp.ret = "giveup"
    /\ Len(cp.outcomes) = 2

\* the outcome of the last attempt Do made
LastOutcome == cp.outcomes[Len(cp.outcomes)]

\* C11: an error of Try that is not an integrity error is what Do returns, on
\* the attempt where it occurs, and the first Try without error makes Do
\* return nil: an attempt that ended otherwise than in an integrity error is
\* the last attempt, and Do returns that attempt's outcome.
C11_BubbleUp ==
    /\ \A k \in 1 .. Len(cp.outcomes) - 1 : cp.outcomes[k] = "integrity"
    /\ (pc = "cp_done" /\ cp.outcomes # <<>> /\ LastOutcome # "integrity")
         => cp.ret = LastOutcome
    /\ (pc = "cp_done" /\ cp.ret \in {"nil", "other"})
         => (cp.outcomes # <<>> /\ LastOutcome = cp.ret)

\* Do returned an ordinary error met on the retry after an integrity failure
C11_Witness ==
    /\ pc = "cp_done"
    /\ cp.ret = "other"
    /\ cp.outcomes = <<"integrity", "other">>

\* an attempt has just returned nil
TrySucceeded == pc = "cp_check" /\ cp.err = "nil"

\* C12: Try with resume and a known size T (cp.statSize > 0), the destination
\* holding L bytes (cp.before): 0 < L < T reads from source offset L and
\* writes at destination offset L; L > T starts over at offset 0; L = T copies
\* nothing; an unknown size (0) disables resume and copies from offset 0.
\* A Try that succeeds with a known size leaves a destination of T bytes.
C12_Resume ==
    TrySucceeded =>
      LET L == cp.before
          T == cp.statSize
      IN  /\ (cp.resume /\ T > 0 /\ 0 < L /\ L < T)
               => (cp.srcOffset = L /\ cp.destOffset = L /\ cp.copied = cp.srcLen - L)
          /\ (cp.resume /\ T > 0 /\ L > T)
               => (cp.srcOffset = 0 /\ cp.destOffset = 0 /\ cp.copied = cp.srcLen)
          /\ (cp.resume /\ T > 0 /\ L = T) => cp.copied = 0
          /\ T = 0 => (cp.srcOffset = 0 /\ cp.destOffset = 0 /\ cp.startOffset = 0
                        /\ cp.copied = cp.srcLen)
          /\ T > 0 => cp.destLen = T

\* a resumed copy appended the missing byte to a partial destination
C12_Witness ==
    /\ TrySucceeded
    /\ cp.resume
    /\ cp.statSize = 2
    /\ cp.before = 1
    /\ cp.srcOffset = 1
    /\ cp.copied = 1
    /\ cp.destLen = 2

----------------------------------------------------------------------------
(* The diff engine: pwr.DiffContext.WriteRecipe *)

\* The index of the target's blocks: one entry per block hash of the target
\* signature, in flat order, with the file and block it belongs to.
RECURSIVE BlockIndex(_, _, _)
BlockIndex(container, hashes, fileIndex) ==
    IF container = <<>> THEN <<>>
    ELSE LET n == NumBlocks(Head(container).size)
             m == IF n <= Len(hashes) THEN n ELSE Len(hashes)
         IN  [k \in 1 .. m |-> [file |-> fileIndex, block |-> k - 1, hash |-> hashes[k]]]
             \o BlockIndex(Tail(container), SubSeq(hashes, m + 1, Len(hashes)), fileIndex + 1)

\* candidates for a window: same weak hash, then same strong hash
Candidates(index, window) ==
    SelectSeq(index, LAMBDA e : /\ e.hash.weak = WeakHash(window)
                                /\ e.hash.strong = StrongHash(window))

RangeOp(file, start, count) ==
    [kind |-> "range", file |-> file, start |-> start, count |-> count, bytes |-> <<>>]
DataOp(bytes) ==
    [kind |-> "data", file |-> 0, start |-> 0, count |-> 0, bytes |-> bytes]

\* append a copy of one target block, merging it into a preceding range that
\* ends right before it in the same target file
EmitCopy(ops, e) ==
    IF /\ ops # <<>>
       /\ ops[Len(ops)].kind = "range"
       /\ ops[Len(ops)].file = e.file
       /\ ops[Len(ops)].start + ops[Len(ops)].count = e.block
    THEN [ops EXCEPT ![Len(ops)].count = @ + 1]
    ELSE Append(ops, RangeOp(e.file, e.block, 1))

Flush(ops, literal) == IF literal = <<>> THEN ops ELSE Append(ops, DataOp(literal))

\* The match loop over one source file from position pos (0-based): the window
\* is the next BlockSize bytes, shorter at the end of the file.
RECURSIVE MatchLoop(_, _, _, _, _)
MatchLoop(src, pos, index, literal, ops) ==
    IF pos >= Len(src) THEN Flush(ops, literal)
    ELSE LET w == IF Len(src) - pos < BlockSize THEN Len(src) - pos ELSE BlockSize
             window == SubSeq(src, pos + 1, pos + w)
             cands == Candidates(index, window)
         IN  IF cands # <<>>
             THEN MatchLoop(src, pos + w, index, <<>>, EmitCopy(Flush(ops, literal), cands[1]))
             ELSE MatchLoop(src, pos + 1, index, Append(literal, src[pos + 1]), ops)

RECURSIVE ReusedIn(_, _)
ReusedIn(ops, sizes) ==
    IF ops = <<>> THEN 0
    ELSE LET o == Head(ops)
             from == o.start * BlockSize
             upto == (o.start + o.count) * BlockSize
             size == sizes[o.file]
             n == IF o.kind # "range" THEN 0
                  ELSE (IF upto > size THEN size ELSE upto) - from
         IN  n + ReusedIn(Tail(ops), sizes)

RECURSIVE FreshIn(_)
FreshIn(ops) == IF ops = <<>> THEN 0 ELSE Len(Head(ops).bytes) + FreshIn(Tail(ops))

RECURSIVE SumSeq(_)
SumSeq(s) == IF s = <<>> THEN 0 ELSE Head(s) + SumSeq(Tail(s))

\* The recipe and the source signature WriteRecipe produces for a DiffContext.
WriteRecipe(dctx) ==
    LET sc == dctx.SourceContainer
        tc == dctx.TargetContainer
        index == BlockIndex(tc, dctx.TargetSignature, 1)
        src == dctx.SourceTree
        ops == [k \in 1 .. Len(sc) |-> MatchLoop(src[sc[k].path].data, 0, index, <<>>, <<>>)]
        sizes == [k \in 1 .. Len(tc) |-> tc[k].size]
    IN  [recipe |-> [target |-> tc, source |-> sc, ops |-> ops],
         signature |-> SignatureFrames(sc, ComputeSignature(sc, src).hashes),
         ReusedBytes |-> SumSeq([k \in 1 .. Len(sc) |-> ReusedIn(ops[k], sizes)]),
         FreshBytes |-> SumSeq([k \in 1 .. Len(sc) |-> FreshIn(ops[k])])]

----------------------------------------------------------------------------
(* The apply engine: pwr.ApplyContext.ApplyRecipe *)

\* bytes a range operation copies out of the target tree
RangeBytes(o, tc, target) ==
    LET f == target[tc[o.file].path]
        from == o.start * BlockSize
        upto == (o.start + o.count) * BlockSize
        size == tc[o.file].size
        end == IF upto > size THEN size ELSE upto
    IN  IF f.exists /\ end <= Len(f.data)
        THEN [err |-> FALSE, bytes |-> SubSeq(f.data, from + 1, end)]
        ELSE [err |-> TRUE, bytes |-> <<>>]

RECURSIVE RunOps(_, _, _)
RunOps(ops, tc, target) ==
    IF ops = <<>> THEN [err |-> FALSE, bytes |-> <<>>]
    ELSE LET o == Head(ops)
             first == IF o.kind = "range" THEN RangeBytes(o, tc, target)
                      ELSE [err |-> FALSE, bytes |-> o.bytes]
             rest == RunOps(Tail(ops), tc, target)
         IN  [err |-> first.err \/ rest.err, bytes |-> first.bytes \o rest.bytes]

\* the output tree once the files of the source container are created empty
Prepare(out, sc) ==
    [p \in Paths |-> IF \E k \in 1 .. Len(sc) : sc[k].path = p THEN File(<<>>) ELSE out[p]]

\* Files are rebuilt in container order, each from the target tree as it is on
\* disk at that moment; the first file that cannot be rebuilt, or comes out with
\* another size than declared, stops the run.
RECURSIVE ApplyFiles(_, _, _, _, _)
ApplyFiles(recipe, k, targetIsOut, target, out) ==
    IF k > Len(recipe.source) THEN [err |-> FALSE, out |-> out]
    ELSE LET r == RunOps(recipe.ops[k], recipe.target, IF targetIsOut THEN out ELSE target)
             f == recipe.source[k]
         IN  IF r.err \/ Len(r.bytes) # f.size
             THEN [err |-> TRUE, out |-> out]
             ELSE ApplyFiles(recipe, k + 1, targetIsOut, target,
                             [out EXCEPT ![f.path] = File(r.bytes)])

ApplyRecipe(recipe, targetIsOut, target, out) ==
    ApplyFiles(recipe, 1, targetIsOut, target, Prepare(out, recipe.source))

----------------------------------------------------------------------------
(* Wire format of a recipe file *)

PatchMagicFrame == Frame("patchmagic", <<>>, NoHash)
RecipeFrames(recipe) == <<PatchMagicFrame, HeaderFrame, Frame("recipe", recipe, NoHash)>>

ReadRecipe(f) ==
    IF /\ f.exists
       /\ Len(f.frames) = 3
       /\ f.frames[1] = PatchMagicFrame
       /\ f.frames[2] = HeaderFrame
       /\ f.frames[3].kind = "recipe"
    THEN [err |-> FALSE, recipe |-> f.frames[3].c]
    ELSE [err |-> TRUE, recipe |-> [target |-> <<>>, source |-> <<>>, ops |-> <<>>]]

\* the tree found under a path: a directory of the model, or nothing to read
\* under a path that is a plain file or /dev/null
TreeAt(path) == IF path \in Roots THEN disk[path] ELSE EmptyTree

\* an empty output path is the working directory
OutRoot(output) == IF output = "" THEN "." ELSE output

Event(e) == [ghost EXCEPT !.events = Append(@, e)]

\* a step that either goes on or hands an error to must
Step(name, go) ==
    \/ /\ go
       /\ UNCHANGED exit
    \/ /\ must(name)
       /\ Fault(name)

----------------------------------------------------------------------------
(* apply(recipe, target, output) *)

\* recipeReader, err := os.Open(recipe); must(err)
ApplyOpen ==
    /\ pc = "apply_open"
    /\ Step("open", /\ files[loc.arecipe].exists
                    /\ pc' = "apply_run"
                    /\ UNCHANGED ghost)
    /\ UNCHANGED <<disk, files, loc, log, cp, fc>>

ApplyEnd(out, err) ==
    /\ disk' = [disk EXCEPT ![OutRoot(loc.aout)] = out]
    /\ IF err
       THEN /\ must("apply")
            /\ UNCHANGED ghost
       ELSE /\ pc' = loc.aret
            /\ exit' = [exit EXCEPT !.status = IF loc.aret = "done" THEN "ok" ELSE @]
            /\ ghost' = IF loc.aret = "done" THEN ghost ELSE Event("applied")

\* the ApplyContext built with TargetPath: output
ApplyRunOnOutput ==
    /\ pc = "apply_run"
    /\ LET r == ReadRecipe(files[loc.arecipe])
           a == ApplyRecipe(r.recipe, TRUE, TreeAt(loc.atarget), disk[OutRoot(loc.aout)])
       IN  IF r.err
           THEN must("recipe") /\ UNCHANGED <<disk, ghost>>
           ELSE ApplyEnd(a.out, a.err)
    /\ UNCHANGED <<files, loc, log, cp, fc>>

\* actx := &pwr.ApplyContext{TargetPath: target, OutputPath: output};
\* must(actx.ApplyRecipe(recipeReader))
ApplyRun ==
    /\ pc = "apply_run"
    /\ LET r == ReadRecipe(files[loc.arecipe])
           a == ApplyRecipe(r.recipe, OutRoot(loc.aout) = loc.atarget,
                            TreeAt(loc.atarget), disk[OutRoot(loc.aout)])
       IN  \/ IF r.err
              THEN must("recipe") /\ UNCHANGED <<disk, ghost>>
              ELSE ApplyEnd(a.out, a.err)
           \/ /\ must("apply")
              /\ Fault("apply")
              /\ disk' = [disk EXCEPT ![OutRoot(loc.aout)] =
                            IF r.err THEN @ ELSE Prepare(@, r.recipe.source)]
    /\ UNCHANGED <<files, loc, log, cp, fc>>

Apply ==
    \/ ApplyOpen
    \/ ApplyRun

----------------------------------------------------------------------------
(* diff(target, source, recipe, brotliQuality) *)

Read(n) == [ghost EXCEPT !.targetReads = @ + n]

\* the sentinel test left out: /dev/null is looked up like any other path
DiffStartNoSentinel ==
    /\ pc = "diff_start"
    /\ \/ /\ pc' = IF loc.target \in Roots THEN "diff_walk_target" ELSE "diff_open_sig"
          /\ ghost' = Read(1)
          /\ UNCHANGED exit
       \/ /\ must("lstat")
          /\ ghost' = [Read(1) EXCEPT !.faults = @ \cup {"lstat"}]
    /\ UNCHANGED <<disk, files, loc, log, cp, fc>>

\* if target == "/dev/null" { targetContainer = &tlc.Container{} }
\* else { targetInfo, err := os.Lstat(target); must(err); if targetInfo.IsDir() ... }
DiffStart ==
    /\ pc = "diff_start"
    /\ IF loc.target = "/dev/null"
       THEN /\ pc' = "diff_walk_source"
            /\ loc' = [loc EXCEPT !.targetContainer = <<>>]
            /\ UNCHANGED <<exit, ghost>>
       ELSE /\ \/ /\ pc' = IF loc.target \in Roots THEN "diff_walk_target" ELSE "diff_open_sig"
                  /\ ghost' = Read(1)
                  /\ UNCHANGED exit
               \/ /\ must("lstat")
                  /\ ghost' = [Read(1) EXCEPT !.faults = @ \cup {"lstat"}]
            /\ UNCHANGED loc
    /\ UNCHANGED <<disk, files, log, cp, fc>>

\* targetContainer, err = tlc.Walk(target, dirFilter); must(err)
DiffWalkTarget ==
    /\ pc = "diff_walk_target"
    /\ \/ /\ pc' = "diff_sign_target"
          /\ loc' = [loc EXCEPT !.targetContainer = Walk(TreeAt(loc.target), dirFilter)]
          /\ ghost' = Read(1)
          /\ UNCHANGED exit
       \/ /\ must("walk")
          /\ ghost' = [Read(1) EXCEPT !.faults = @ \cup {"walk"}]
          /\ UNCHANGED loc
    /\ UNCHANGED <<disk, files, log, cp, fc>>

\* targetSignature, err = pwr.ComputeSignature(targetContainer, target, ...); must(err)
DiffSignTarget ==
    /\ pc = "diff_sign_target"
    /\ LET sig == ComputeSignature(loc.targetContainer, TreeAt(loc.target))
       IN  \/ /\ ~ sig.err
              /\ pc' = "diff_walk_source"
              /\ loc' = [loc EXCEPT !.targetSignature = sig.hashes]
              /\ ghost' = Read(1)
              /\ UNCHANGED exit
           \/ /\ must("compute")
              /\ ghost' = [Read(1) EXCEPT !.faults = @ \cup {"compute"}]
              /\ UNCHANGED loc
    /\ UNCHANGED <<disk, files, log, cp, fc>>

\* signatureReader, err := os.Open(target); must(err)
DiffOpenSig ==
    /\ pc = "diff_open_sig"
    /\ \/ /\ loc.target \in FileNames
          /\ files[loc.target].exists
          /\ pc' = "diff_read_sig"
          /\ ghost' = Read(1)
          /\ UNCHANGED exit
       \/ /\ must("open")
          /\ ghost' = [Read(1) EXCEPT !.faults = @ \cup {"open"}]
    /\ UNCHANGED <<disk, files, loc, log, cp, fc>>

\* targetContainer, targetSignature, err = pwr.ReadSignature(signatureReader);
\* must(err); must(signatureReader.Close())
DiffReadSig ==
    /\ pc = "diff_read_sig"
    /\ LET sig == ReadSignature(files[loc.target])
       IN  \/ /\ ~ sig.err
              /\ pc' = "diff_walk_source"
              /\ loc' = [loc EXCEPT !.targetContainer = sig.container,
                                    !.targetSignature = sig.hashes]
              /\ ghost' = Read(1)
              /\ UNCHANGED exit
           \/ /\ must("read")
              /\ ghost' = [Read(1) EXCEPT !.faults = @ \cup {"read"}]
              /\ UNCHANGED loc
    /\ UNCHANGED <<disk, files, log, cp, fc>>

\* sourceContainer, err := tlc.Walk(source, dirFilter); must(err)
DiffWalkSource ==
    /\ pc = "diff_walk_source"
    /\ Step("walk", /\ pc' = "diff_create"
                    /\ loc' = [loc EXCEPT !.sourceContainer = Walk(disk["new"], dirFilter)]
                    /\ UNCHANGED ghost)
    /\ pc' = "died" => UNCHANGED loc
    /\ UNCHANGED <<disk, files, log, cp, fc>>

\* recipeWriter, err := os.Create(recipe); must(err)
\* signatureWriter, err := os.Create(recipe + ".sig"); must(err)
DiffCreate ==
    /\ pc = "diff_create"
    /\ \/ /\ pc' = "diff_write"
          /\ files' = [files EXCEPT !["patch"] = [exists |-> TRUE, frames |-> <<>>],
                                    !["patch.sig"] = [exists |-> TRUE, frames |-> <<>>]]
          /\ UNCHANGED <<exit, ghost>>
       \/ /\ must("create")
          /\ Fault("create")
          /\ \/ UNCHANGED files
             \/ files' = [files EXCEPT !["patch"] = [exists |-> TRUE, frames |-> <<>>]]
    /\ UNCHANGED <<disk, loc, log, cp, fc>>

DiffContext ==
    [SourceContainer |-> loc.sourceContainer, SourceTree |-> disk["new"],
     TargetContainer |-> loc.targetContainer, TargetSignature |-> loc.targetSignature]

\* must(dctx.WriteRecipe(recipeCounter, signatureCounter))
DiffWriteRecipe ==
    /\ pc = "diff_write"
    /\ LET w == WriteRecipe(DiffContext)
       IN  \/ /\ pc' = "diff_stats"
              /\ files' = [files EXCEPT !["patch"].frames = RecipeFrames(w.recipe),
                                        !["patch.sig"].frames = w.signature]
              /\ loc' = [loc EXCEPT !.ReusedBytes = w.ReusedBytes,
                                    !.FreshBytes = w.FreshBytes]
              /\ ghost' = Event("written")
              /\ UNCHANGED exit
           \/ /\ must("write")
              /\ Fault("write")
              /\ UNCHANGED <<files, loc>>
    /\ UNCHANGED <<disk, log, cp, fc>>

\* the statistics are logged; if *diffArgs.verify { ... } else the function returns
DiffStats ==
    /\ pc = "diff_stats"
    /\ IF loc.verify
       THEN /\ pc' = "diff_tempdir"
            /\ UNCHANGED exit
       ELSE /\ pc' = "diff_done"
            /\ exit' = [status |-> "ok", why |-> "", at |-> 0]
    /\ UNCHANGED <<disk, files, loc, log, ghost, cp, fc>>

\* tmpDir, err := ioutil.TempDir(os.TempDir(), "pwr"); must(err)
DiffTempDir ==
    /\ pc = "diff_tempdir"
    /\ \/ /\ pc' = "diff_call_apply"
          /\ disk' = [disk EXCEPT !["tmp"] = EmptyTree]
          /\ ghost' = Event("tmpdir")
          /\ UNCHANGED exit
       \/ /\ must("tempdir")
          /\ Fault("tempdir")
          /\ UNCHANGED disk
    /\ UNCHANGED <<files, loc, log, cp, fc>>

\* the verification run without the apply before it
DiffSkipApply ==
    /\ pc = "diff_call_apply"
    /\ pc' = "diff_call_verify"
    /\ ghost' = Event("apply")
    /\ UNCHANGED <<disk, files, loc, log, exit, cp, fc>>

\* apply(recipe, target, tmpDir)
DiffCallApply ==
    /\ pc = "diff_call_apply"
    /\ pc' = "apply_open"
    /\ loc' = [loc EXCEPT !.arecipe = "patch", !.atarget = loc.target,
                          !.aout = "tmp", !.aret = "diff_call_verify"]
    /\ ghost' = Event("apply")
    /\ UNCHANGED <<disk, files, log, exit, cp, fc>>

\* verify(signaturePath, tmpDir)
DiffCallVerify ==
    /\ pc = "diff_call_verify"
    /\ pc' = "verify_open"
    /\ loc' = [loc EXCEPT !.vsig = "patch.sig", !.vout = "tmp", !.vret = "diff_return"]
    /\ ghost' = Event("verify")
    /\ UNCHANGED <<disk, files, log, exit, cp, fc>>

\* verify returned: the deferred os.RemoveAll(tmpDir) and Close calls run
DiffReturn ==
    /\ pc = "diff_return"
    /\ pc' = "diff_done"
    /\ disk' = [disk EXCEPT !["tmp"] = EmptyTree]
    /\ exit' = [status |-> "ok", why |-> "", at |-> 0]
    /\ ghost' = Event("returned")
    /\ UNCHANGED <<files, loc, log, cp, fc>>

Diff ==
    \/ DiffStart
    \/ DiffWalkTarget
    \/ DiffSignTarget
    \/ DiffOpenSig
    \/ DiffReadSig
    \/ DiffWalkSource
    \/ DiffCreate
    \/ DiffWriteRecipe
    \/ DiffStats
    \/ DiffTempDir
    \/ DiffCallApply
    \/ DiffCallVerify
    \/ DiffReturn

----------------------------------------------------------------------------
(* The diff / apply scenario: a patch is made from old (a directory, its   *)
(* signature file, or /dev/null) to new, then applied to the directory old. *)

\* what --dir may be: another directory, the patched directory, or not given
Outputs == {"out", "old", ""}

\* main: case applyCmd.FullCommand(): apply(*applyArgs.patch, *applyArgs.old, *applyArgs.dir, ...)
StartApply ==
    /\ pc = "diff_done"
    /\ \E dir \in Outputs :
         loc' = [loc EXCEPT !.arecipe = "patch", !.atarget = "old",
                            !.aout = dir, !.aret = "done"]
    /\ pc' = "apply_open"
    /\ exit' = Running
    /\ UNCHANGED <<disk, files, log, ghost, cp, fc>>

\* trees with one regular file, and the version-control entry when vcs is allowed
DiffTrees(vcs) ==
    {[p \in Paths |-> IF p = 1 THEN f ELSE IF p = VcsPath THEN v ELSE Absent] :
        f \in {Absent} \cup {File(d) : d \in Contents},
        v \in IF vcs THEN {Absent, File(<<1>>)} ELSE {Absent}}

Targets == {"old", "sig", "/dev/null"}

InitDiff ==
    /\ \E old \in DiffTrees(FALSE), new \in DiffTrees(TRUE), target \in Targets,
          verify \in BOOLEAN :
         /\ disk = [r \in Roots |-> IF r = "old" THEN old ELSE IF r = "new" THEN new
                                    ELSE EmptyTree]
         /\ files = [n \in FileNames |->
                        IF n = "sig" /\ target = "sig"
                        THEN [exists |-> TRUE,
                              frames |-> LET c == Walk(old, nilFilter)
                                         IN  SignatureFrames(c, ComputeSignature(c, old).hashes)]
                        ELSE NoFile]
         /\ loc = [loc0 EXCEPT !.target = target, !.verify = verify]
         /\ ghost = [ghost0 EXCEPT !.old0 = old, !.new0 = new]
    /\ pc = "diff_start"
    /\ log = <<>>
    /\ exit = Running
    /\ cp = cp0
    /\ fc = fc0

NextDiff ==
    \/ Diff
    \/ Apply
    \/ Verify
    \/ StartApply

SpecDiff == InitDiff /\ [][NextDiff]_vars

----------------------------------------------------------------------------
(* Properties of diff and apply *)

\* a tree without the entries filterDirs rejects
Filtered(tree) == [p \in Paths |-> IF filterDirs(EntryName(p)) THEN tree[p] ELSE Absent]

\* the apply command of the command line has ended
ApplyEnded == loc.aret = "done" /\ pc \in {"done", "died"}

RecipeOps == ReadRecipe(files["patch"]).recipe.ops

\* C4: with no I/O failure, the recipe of diff(D, D') applied to the directory
\* D, into another directory, rebuilds D' byte for byte, entries of ignored
\* directories left out; and the verification run inside diff, which compares
\* the rebuilt tree with the signature of D', succeeds.
C4_PatchRoundTrip ==
    (loc.target = "old" /\ ghost.faults = {}) =>
        /\ (pc = "diff_call_verify" \/ (pc = "verify_open" /\ loc.vret = "diff_return"))
              => disk["tmp"] = Filtered(ghost.new0)
        /\ loc.aret # "done" => pc # "died"
        /\ (ApplyEnded /\ loc.aout = "out")
              => (pc = "done" /\ disk["out"] = Filtered(ghost.new0))

\* a patch that both copies from D and embeds new bytes was applied, and D'
\* holds an entry of an ignored directory
C4_Witness ==
    /\ loc.target = "old"
    /\ ApplyEnded
    /\ pc = "done"
    /\ loc.aout = "out"
    /\ ghost.faults = {}
    /\ ghost.new0[VcsPath].exists
    /\ loc.ReusedBytes > 0
    /\ loc.FreshBytes > 0

Written == ~ ReadRecipe(files["patch"]).err

\* C5: given /dev/null as target, diff takes an empty container and an empty
\* signature and makes no file-system access for the target; the recipe holds
\* Data operations only, ReusedBytes is 0 and the Data lengths add up to the
\* size of the source container.
C5_EmptyTargetDiff ==
    loc.target = "/dev/null" =>
        /\ ghost.targetReads = 0
        /\ loc.targetContainer = <<>>
        /\ loc.targetSignature = <<>>
        /\ Written =>
             /\ \A k \in 1 .. Len(RecipeOps) :
                  \A j \in 1 .. Len(RecipeOps[k]) : RecipeOps[k][j].kind = "data"
             /\ loc.ReusedBytes = 0
             /\ SumSeq([k \in 1 .. Len(RecipeOps) |-> FreshIn(RecipeOps[k])])
                  = ContainerSize(loc.sourceContainer)
             /\ ContainerSize(loc.sourceContainer)
                  = ContainerSize(Walk(ghost.new0, dirFilter))

\* a recipe against /dev/null for a source of more than one block
C5_Witness ==
    /\ loc.target = "/dev/null"
    /\ Written
    /\ ContainerSize(loc.sourceContainer) > BlockSize

VerifySteps == <<"written", "tmpdir", "apply", "applied", "verify", "returned">>

InApply == pc \in {"apply_open", "apply_run"} /\ loc.aret = "diff_call_verify"
InVerify ==
    /\ pc \in {"verify_open", "verify_read", "verify_compute", "verify_len", "verify_loop"}
    /\ loc.vret = "diff_return"

\* C7: with verification requested, for a directory, a signature file or
\* /dev/null as target alike: the recipe and its signature are written in full,
\* then the recipe is applied into a new empty temporary directory, then that
\* directory is verified against the signature written with the recipe; diff
\* ends well only if the apply and the verification both did.
C7_VerifyOrder ==
    /\ IsPrefix(ghost.events, VerifySteps)
    /\ InApply =>
         /\ Written
         /\ ~ ReadSignature(files["patch.sig"]).err
         /\ loc.arecipe = "patch" /\ loc.atarget = loc.target /\ loc.aout = "tmp"
         /\ pc = "apply_open" => disk["tmp"] = EmptyTree
    /\ InVerify =>
         /\ ghost.events = SubSeq(VerifySteps, 1, 5)
         /\ loc.vsig = "patch.sig" /\ loc.vout = "tmp"
    /\ pc = "diff_done" =>
         ghost.events = IF loc.verify THEN VerifySteps ELSE <<"written">>

\* a verified diff against a signature file
C7_Witness ==
    /\ pc = "diff_done"
    /\ loc.verify
    /\ loc.target = "sig"
    /\ ghost.events = VerifySteps

\* C10: apply never modifies the target tree: whatever output path the command
\* line passes, the target directory holds after apply what it held before.
C10_TargetReadOnly ==
    (ApplyEnded /\ ghost.faults = {}) => disk["old"] = ghost.old0

----------------------------------------------------------------------------
(* fetch: FetchCollection *)

\* largest GamesCount the API reports
MaxGames == 3
\* largest page, and largest PerPage, the API returns
MaxPageLen == 2

\* a FetchCollection request ended: rc.DBPool.Put(conn) and return
FcEnd(ret) ==
    /\ pc' = "fc_done"
    /\ fc' = [fc EXCEPT !.ret = ret]

\* sendDBCollection(): nothing when the collection has no row in the database,
\* otherwise a FetchCollectionYield notification, whose failure ends the
\* request; on to next with the locals g.
sendDBCollection(next, g) ==
    \/ /\ ~ fc.dbHas
       /\ pc' = next
       /\ fc' = g
    \/ /\ fc.dbHas
       /\ pc' = next
       /\ fc' = [g EXCEPT !.events = Append(@, "yield")]
    \/ /\ fc.dbHas
       /\ FcEnd("err")

\* models.MustSave / MustSaveOne: the record is stored, or the call panics
MustSave(next, g) ==
    \/ /\ pc' = next
       /\ fc' = g
    \/ FcEnd("panic")

FcFrame == UNCHANGED <<disk, files, loc, log, exit, ghost, cp>>

\* if params.CollectionID == 0 { return nil, errors.New(...) }
FcStart ==
    /\ pc = "fc_start"
    /\ IF fc.collectionID = 0
       THEN FcEnd("err")
       ELSE pc' = "fc_send_cached" /\ fc' = fc
    /\ FcFrame

\* err := sendDBCollection(): what the database already holds
FcSendCached ==
    /\ pc = "fc_send_cached"
    /\ sendDBCollection("fc_get", fc)
    /\ FcFrame

\* collRes, err := client.GetCollection(...); collection.CollectionGames = nil;
\* models.MustSaveOne(conn, collRes.Collection)
FcGetCollection ==
    /\ pc = "fc_get"
    /\ \/ FcEnd("err")
       \/ \E count \in 0 .. MaxGames :
            MustSave("fc_send_meta",
                     [fc EXCEPT !.GamesCount = count, !.games = 0, !.dbHas = TRUE,
                                !.events = Append(@, "save_meta")])
    /\ FcFrame

\* after collection metadata update
FcSendMeta ==
    /\ pc = "fc_send_meta"
    /\ sendDBCollection("fc_fetch", fc)
    /\ FcFrame

\* gamesRes, err := client.GetCollectionGames(... Page: page);
\* numPageGames := len(gamesRes.CollectionGames); if numPageGames == 0 { break }
FcFetchPage ==
    /\ pc = "fc_fetch"
    /\ \/ FcEnd("err")
       \/ \E n \in 0 .. MaxPageLen, perPage \in 0 .. MaxPageLen :
            /\ pc' = IF n = 0 THEN "fc_final_save" ELSE "fc_save_page"
            /\ fc' = [fc EXCEPT !.numPageGames = n, !.PerPage = perPage,
                                !.pages = Append(@, n)]
    /\ FcFrame

\* the page is saved but the running count is not advanced
FcSavePageNoCount ==
    /\ pc = "fc_save_page"
    /\ MustSave("fc_tests",
                [fc EXCEPT !.games = @ + fc.numPageGames,
                           !.events = Append(@, "save_page")])
    /\ FcFrame

\* collection.CollectionGames = append(...); models.MustSave(...);
\* offset += numPageGames
FcSavePage ==
    /\ pc = "fc_save_page"
    /\ MustSave("fc_tests",
                [fc EXCEPT !.games = @ + fc.numPageGames,
                           !.offset = @ + fc.numPageGames,
                           !.events = Append(@, "save_page")])
    /\ FcFrame

\* if offset >= collection.GamesCount { break }
\* if numPageGames < gamesRes.PerPage { break }
FcPageTests ==
    /\ pc = "fc_tests"
    /\ pc' = IF fc.offset >= fc.GamesCount \/ fc.numPageGames < fc.PerPage
             THEN "fc_final_save" ELSE "fc_send_page"
    /\ fc' = fc
    /\ FcFrame

\* after each page of games fetched: err = sendDBCollection(); page++
FcSendPage ==
    /\ pc = "fc_send_page"
    /\ sendDBCollection("fc_fetch", [fc EXCEPT !.page = @ + 1])
    /\ FcFrame

\* models.MustSave(conn, ...) after the loop
FcFinalSave ==
    /\ pc = "fc_final_save"
    /\ MustSave("fc_final_send", [fc EXCEPT !.events = Append(@, "save_final")])
    /\ FcFrame

\* after all pages are fetched
FcFinalSend ==
    /\ pc = "fc_final_send"
    /\ sendDBCollection("fc_return", fc)
    /\ FcFrame

\* res := &butlerd.FetchCollectionResult{}; return res, nil
FcReturn ==
    /\ pc = "fc_return"
    /\ FcEnd("ok")
    /\ FcFrame

FetchCollection ==
    \/ FcStart
    \/ FcSendCached
    \/ FcGetCollection
    \/ FcSendMeta
    \/ FcFetchPage
    \/ FcSavePage
    \/ FcPageTests
    \/ FcSendPage
    \/ FcFinalSave
    \/ FcFinalSend
    \/ FcReturn

InitFetch ==
    /\ disk = [r \in Roots |-> EmptyTree]
    /\ files = [n \in FileNames |-> NoFile]
    /\ pc = "fc_start"
    /\ loc = loc0
    /\ log = <<>>
    /\ exit = Running
    /\ ghost = ghost0
    /\ cp = cp0
    /\ \E id \in {0, 1}, cached \in BOOLEAN :
         fc = [collectionID |-> id, dbHas |-> cached, GamesCount |-> 0,
               games |-> 0, page |-> 1, offset |-> 0, numPageGames |-> 0,
               PerPage |-> 0, pages |-> <<>>, events |-> <<>>, ret |-> "none"]

NextFetch == FetchCollection

SpecFetch == InitFetch /\ [][NextFetch]_vars

\* every call returns: a request that can take a step takes one
SpecFetchLive == SpecFetch /\ WF_vars(NextFetch)

\* the page loop goes round again only after a non-empty, full page that left
\* the running count below GamesCount; then every page fetched so far was
\* non-empty and raised the running count, which bounds the page number
FcLoopInv ==
    /\ \A k \in 1 .. Len(fc.pages) - 1 : fc.pages[k] > 0
    /\ pc = "fc_send_page" =>
         /\ fc.numPageGames > 0
         /\ fc.offset < fc.GamesCount
         /\ fc.numPageGames >= fc.PerPage
    /\ pc = "fc_fetch" =>
         /\ Len(fc.pages) = fc.page - 1
         /\ fc.offset >= fc.page - 1
         /\ fc.page > 1 => fc.offset < fc.GamesCount
    /\ pc \in {"fc_tests", "fc_send_page"} => fc.offset >= fc.page
    /\ fc.page <= Max(1, fc.GamesCount)

\* a result is returned only after the final save and, last, the final yield
FcFinalInv ==
    (pc = "fc_done" /\ fc.ret = "ok") =>
        /\ Len(fc.events) >= 2
        /\ fc.events[Len(fc.events) - 1] = "save_final"
        /\ fc.events[Len(fc.events)] = "yield"

\* C13: the page loop of FetchCollection ends whatever the API returns: it
\* stops at the first empty page, or once the running count reaches
\* GamesCount, or at the first page shorter than PerPage, each non-empty page
\* raising the running count; so every request comes to its end, and a
\* result is returned only after a final save and a final yield notification.
C13_PageLoopTerminates ==
    /\ [](FcLoopInv /\ FcFinalInv)
    /\ <>(pc = "fc_done")

\* a result was returned after the loop went round and fetched a second page
C13_Witness ==
    /\ pc = "fc_done"
    /\ fc.ret = "ok"
    /\ fc.page = 2
    /\ Len(fc.pages) = 2
    /\ fc.events[Len(fc.events)] = "yield"

====
